---- MODULE Spec2Model ----
(***************************************************************************)
(* The time-travel camera worker (src/src/index.ts): three HTTP handlers   *)
(* over one R2 bucket and one upstream image service.                      *)
(*                                                                         *)
(* A transform request (POST /api/time-travel) suspends at two awaits: the *)
(* upstream images.edit call and the bucket put.  Other requests run while *)
(* it is suspended, so the handler is three atomic steps.  The fetch and   *)
(* list handlers have one await each and are one step.  Handlers share     *)
(* nothing but the bucket and the clock, so the suspended ones are a bag.  *)
(***************************************************************************)
EXTENDS Integers, Sequences, FiniteSets, Bags, TLC

VARIABLES
    apiKey,     \* c.env.OPENAI_API_KEY is set
    bucket,     \* c.env.IMAGES_BUCKET is bound
    store,      \* the bucket's objects: key -> object
    now,        \* the value Date.now() returns
    flight,     \* the transform handlers suspended at an await: a bag of frames
    out         \* the last response sent, with the frame of the handler that sent it

vars == <<apiKey, bucket, store, now, flight, out>>

(***************************************************************************)
(* Bounds.                                                                 *)
(***************************************************************************)
NReq == 2       \* transform requests in flight at once
MaxTime == 2    \* milliseconds the clock advances

(***************************************************************************)
(* JavaScript values.                                                      *)
(***************************************************************************)
Undefined == "<undefined>"

Falsy(v) == v \in {Undefined, ""}

(***************************************************************************)
(* The era table.                                                          *)
(***************************************************************************)
TIME_PERIODS ==
    << [id |-> "prehistoric",      name |-> "Prehistoric",        prompt |-> "prehistoric era"],
       [id |-> "ancient-egypt",    name |-> "Ancient Egypt",      prompt |-> "ancient Egyptian civilization"],
       [id |-> "roman-empire",     name |-> "Roman Empire",       prompt |-> "ancient Roman civilization"],
       [id |-> "medieval",         name |-> "Medieval",           prompt |-> "medieval Europe"],
       [id |-> "renaissance",      name |-> "Renaissance",        prompt |-> "Renaissance period"],
       [id |-> "wild-west",        name |-> "Wild West",          prompt |-> "American Wild West era"],
       [id |-> "roaring-twenties", name |-> "1920s",              prompt |-> "Roaring Twenties"],
       [id |-> "future",           name |-> "Future (Year 3030)", prompt |-> "year 3030"] >>

\* TIME_PERIODS.find(p => p.id === timeperiod): the index of the first
\* match, 0 when there is none.
FindPeriod(timeperiod) ==
    LET hits == {i \in 1..Len(TIME_PERIODS) : TIME_PERIODS[i].id = timeperiod}
    IN  IF hits = {} THEN 0
        ELSE CHOOSE i \in hits : \A j \in hits : i <= j

(***************************************************************************)
(* Base64, as Buffer.from(text, 'base64') decodes it: four characters give *)
(* three bytes, '=' ends the input, a trailing group of two or three       *)
(* characters gives one or two bytes.                                      *)
(***************************************************************************)
B64Alphabet == "ABCDEFGHIJKLMNOPQRSTUVWXYZabcdefghijklmnopqrstuvwxyz0123456789+/"

B64Index(ch) == (CHOOSE i \in 1..64 : SubSeq(B64Alphabet, i, i) = ch) - 1

RECURSIVE B64Sextets(_)
B64Sextets(text) ==
    IF Len(text) = 0 \/ SubSeq(text, 1, 1) = "=" THEN <<>>
    ELSE <<B64Index(SubSeq(text, 1, 1))>> \o B64Sextets(SubSeq(text, 2, Len(text)))

RECURSIVE B64Bytes(_)
B64Bytes(s) ==
    IF Len(s) < 2 THEN <<>>
    ELSE LET b1 == s[1] * 4 + (s[2] \div 16)
         IN  IF Len(s) = 2 THEN <<b1>>
             ELSE LET b2 == (s[2] % 16) * 16 + (s[3] \div 4)
                  IN  IF Len(s) = 3 THEN <<b1, b2>>
                      ELSE <<b1, b2, (s[3] % 4) * 64 + s[4]>>
                               \o B64Bytes(SubSeq(s, 5, Len(s)))

BufferFromBase64(text) == B64Bytes(B64Sextets(text))

(***************************************************************************)
(* imageData.replace(/^data:image\/\w+;base64,/, ""): a leading            *)
(* data:image/<word>;base64, is removed, anything else is kept.            *)
(***************************************************************************)
WordChars == "ABCDEFGHIJKLMNOPQRSTUVWXYZabcdefghijklmnopqrstuvwxyz0123456789_"

IsWord(text) ==
    /\ Len(text) > 0
    /\ \A i \in 1..Len(text) :
          \E j \in 1..Len(WordChars) : SubSeq(WordChars, j, j) = SubSeq(text, i, i)

StartsWith(text, prefix) ==
    Len(text) >= Len(prefix) /\ SubSeq(text, 1, Len(prefix)) = prefix

StripDataUri(text) ==
    LET head == "data:image/"
        tail == ";base64,"
        ks   == {k \in 1..Len(text) :
                    /\ Len(head) + k + Len(tail) <= Len(text)
                    /\ SubSeq(text, Len(head) + k + 1, Len(head) + k + Len(tail)) = tail
                    /\ IsWord(SubSeq(text, Len(head) + 1, Len(head) + k))}
    IN  IF StartsWith(text, head) /\ ks # {}
        THEN LET k == CHOOSE k \in ks : TRUE
             IN  SubSeq(text, Len(head) + k + Len(tail) + 1, Len(text))
        ELSE text

(***************************************************************************)
(* Inputs.                                                                 *)
(***************************************************************************)
Picture == "data:image/png;base64,QUJD"

Malformed == [json |-> FALSE, timeperiod |-> Undefined, imageData |-> Undefined]

Requests ==
    { Malformed,
      [json |-> TRUE, timeperiod |-> Undefined,  imageData |-> Picture],
      [json |-> TRUE, timeperiod |-> "medieval", imageData |-> Undefined],
      [json |-> TRUE, timeperiod |-> "atlantis", imageData |-> Picture],
      [json |-> TRUE, timeperiod |-> "medieval", imageData |-> Picture] }

\* What openai.images.edit gives: it throws, or it returns a result whose
\* data is missing or empty, or whose data[0] has b64_json or has none.
Threw == [threw |-> TRUE, data |-> <<>>]

UpstreamResults ==
    {Threw, [threw |-> FALSE, data |-> <<>>]} \cup
    {[threw |-> FALSE, data |-> <<[b64_json |-> b]>>] :
        b \in {Undefined, "QUJD", "QUJE"}}

NoResult == [threw |-> FALSE, data |-> <<[b64_json |-> ""]>>]

(***************************************************************************)
(* Responses of the transform handler.                                     *)
(***************************************************************************)
NoResponse ==
    [status |-> 0, error |-> "", success |-> FALSE, image |-> "",
     stored |-> FALSE, filename |-> "", storageError |-> FALSE]

ErrorJson(status, error) == [NoResponse EXCEPT !.status = status, !.error = error]

DataUri(b64) == "data:image/png;base64," \o b64

InlineJson(b64, failed) ==
    [NoResponse EXCEPT !.status = 200, !.success = TRUE,
                       !.image = DataUri(b64), !.storageError = failed]

StoredJson(name) ==
    [NoResponse EXCEPT !.status = 200, !.success = TRUE, !.stored = TRUE,
                       !.image = "/api/images/" \o name, !.filename = name]

\* `timetravel-${period.id}-${timestamp}.png`
Filename(id, timestamp) ==
    "timetravel-" \o id \o "-" \o ToString(timestamp) \o ".png"

(***************************************************************************)
(* The bucket.                                                             *)
(***************************************************************************)
R2Put(s, key, bytes) ==
    [k \in DOMAIN s \cup {key} |->
        IF k = key THEN [body |-> bytes, contentType |-> "image/png"] ELSE s[k]]

(***************************************************************************)
(* POST /api/time-travel.                                                  *)
(***************************************************************************)
\* A handler's frame: its locals, and the calls it has made so far.
Frame(request) ==
    [pc |-> "start", req |-> request, period |-> "", sent |-> <<>>,
     result |-> NoResult, filename |-> "", calls |-> 0, puts |-> 0]

\* Rejection with the era looked up before the credential is read.
RejectionEraFirst(request, hasKey) ==
    IF ~request.json
    THEN ErrorJson(500, "Failed to process request")
    ELSE IF Falsy(request.timeperiod) \/ Falsy(request.imageData)
    THEN ErrorJson(400, "Missing required parameters")
    ELSE IF FindPeriod(request.timeperiod) = 0
    THEN ErrorJson(400, "Invalid time period")
    ELSE IF ~hasKey
    THEN ErrorJson(500, "OpenAI API key not configured")
    ELSE NoResponse

\* Rejection with the credential read before the fields are looked at.
RejectionKeyFirst(request, hasKey) ==
    IF ~request.json
    THEN ErrorJson(500, "Failed to process request")
    ELSE IF ~hasKey
    THEN ErrorJson(500, "OpenAI API key not configured")
    ELSE IF Falsy(request.timeperiod) \/ Falsy(request.imageData)
    THEN ErrorJson(400, "Missing required parameters")
    ELSE IF FindPeriod(request.timeperiod) = 0
    THEN ErrorJson(400, "Invalid time period")
    ELSE NoResponse

\* The checks before the upstream call, in the order the handler makes
\* them; NoResponse when the request passes them all.
Rejection(request, hasKey) ==
    IF ~request.json
    THEN ErrorJson(500, "Failed to process request")
    ELSE IF Falsy(request.timeperiod) \/ Falsy(request.imageData)
    THEN ErrorJson(400, "Missing required parameters")
    ELSE IF ~hasKey
    THEN ErrorJson(500, "OpenAI API key not configured")
    ELSE IF FindPeriod(request.timeperiod) = 0
    THEN ErrorJson(400, "Invalid time period")
    ELSE NoResponse

\* The handler returns c.json(...): its frame leaves the bag.
Respond(f, g, response) ==
    /\ out' = [route |-> "transform", frame |-> g, response |-> response]
    /\ flight' = flight (-) SetToBag({f})

\* The handler awaits: frame f is replaced by g.
Suspend(f, g) ==
    /\ flight' = (flight (-) SetToBag({f})) (+) SetToBag({g})
    /\ UNCHANGED out

\* The frame after the checks passed, with the upstream call issued.
Called(f) ==
    [f EXCEPT !.pc = "calling",
              !.period = TIME_PERIODS[FindPeriod(f.req.timeperiod)].id,
              !.sent = BufferFromBase64(StripDataUri(f.req.imageData)),
              !.calls = @ + 1]

\* Receive with the upstream call issued before the era is validated.
ReceiveValidatesLate ==
    /\ BagCardinality(flight) < NReq
    /\ \E request \in Requests :
        LET f == Frame(request)
            late == Rejection(request, apiKey).error = "Invalid time period"
        IN  IF Rejection(request, apiKey) # NoResponse
            THEN /\ out' = [route |-> "transform",
                            frame |-> [f EXCEPT !.calls = IF late THEN 1 ELSE 0],
                            response |-> Rejection(request, apiKey)]
                 /\ UNCHANGED flight
            ELSE /\ flight' = flight (+) SetToBag({Called(f)})
                 /\ UNCHANGED out
    /\ UNCHANGED <<apiKey, bucket, store, now>>

\* From the request's arrival to the images.edit call.
Receive ==
    /\ BagCardinality(flight) < NReq
    /\ \E request \in Requests :
        LET f == Frame(request)
        IN  IF Rejection(request, apiKey) # NoResponse
            THEN /\ out' = [route |-> "transform", frame |-> f,
                            response |-> Rejection(request, apiKey)]
                 /\ UNCHANGED flight
            ELSE /\ flight' = flight (+) SetToBag({Called(f)})
                 /\ UNCHANGED out
    /\ UNCHANGED <<apiKey, bucket, store, now>>

\* The frame after images.edit gave an image and a bucket is bound, with
\* the put issued.
Putting(f, res, timestamp) ==
    [f EXCEPT !.pc = "putting", !.result = res,
              !.filename = Filename(f.period, timestamp),
              !.puts = @ + 1]

\* UpstreamReturns with a failed call issued once more.
UpstreamReturnsRetrying ==
    /\ \E f \in BagToSet(flight), res \in UpstreamResults :
        /\ f.pc = "calling"
        /\ LET g == [f EXCEPT !.result = res]
           IN  IF res.threw /\ f.calls < 2
               THEN Suspend(f, [f EXCEPT !.calls = @ + 1])
               ELSE IF res.threw \/ res.data = <<>>
               THEN Respond(f, g, ErrorJson(500, "Failed to generate image with OpenAI"))
               ELSE IF Falsy(res.data[1].b64_json)
               THEN Respond(f, g, ErrorJson(500, "No image returned from OpenAI"))
               ELSE IF bucket
               THEN Suspend(f, Putting(f, res, now))
               ELSE Respond(f, g, InlineJson(res.data[1].b64_json, FALSE))
    /\ UNCHANGED <<apiKey, bucket, store, now>>

\* UpstreamReturns with the test of b64_json folded into the bucket test:
\* a result without image content falls through to the data URI.
UpstreamReturnsNoImageCheck ==
    /\ \E f \in BagToSet(flight), res \in UpstreamResults :
        /\ f.pc = "calling"
        /\ LET g == [f EXCEPT !.result = res]
           IN  IF res.threw \/ res.data = <<>>
               THEN Respond(f, g, ErrorJson(500, "Failed to generate image with OpenAI"))
               ELSE IF bucket /\ ~Falsy(res.data[1].b64_json)
               THEN Suspend(f, Putting(f, res, now))
               ELSE Respond(f, g, InlineJson(res.data[1].b64_json, FALSE))
    /\ UNCHANGED <<apiKey, bucket, store, now>>

\* From the return of images.edit to the bucket put, or to the response.
UpstreamReturns ==
    /\ \E f \in BagToSet(flight), res \in UpstreamResults :
        /\ f.pc = "calling"
        /\ LET g == [f EXCEPT !.result = res]
           IN  IF res.threw \/ res.data = <<>>
               THEN Respond(f, g, ErrorJson(500, "Failed to generate image with OpenAI"))
               ELSE IF Falsy(res.data[1].b64_json)
               THEN Respond(f, g, ErrorJson(500, "No image returned from OpenAI"))
               ELSE IF bucket
               THEN Suspend(f, Putting(f, res, now))
               ELSE Respond(f, g, InlineJson(res.data[1].b64_json, FALSE))
    /\ UNCHANGED <<apiKey, bucket, store, now>>

\* The put resolves: the object is in the bucket and the response names it.
PutDone ==
    /\ \E f \in BagToSet(flight) :
        /\ f.pc = "putting"
        /\ store' = R2Put(store, f.filename,
                          BufferFromBase64(f.result.data[1].b64_json))
        /\ Respond(f, f, StoredJson(f.filename))
    /\ UNCHANGED <<apiKey, bucket, now>>

\* PutFails without the fallback: the storage error reaches the outer catch.
PutFailsNoFallback ==
    /\ \E f \in BagToSet(flight) :
        /\ f.pc = "putting"
        /\ Respond(f, f, ErrorJson(500, "Failed to generate image with OpenAI"))
    /\ UNCHANGED <<apiKey, bucket, store, now>>

\* The put rejects: the handler's catch answers with the data URI.
PutFails ==
    /\ \E f \in BagToSet(flight) :
        /\ f.pc = "putting"
        /\ Respond(f, f, InlineJson(f.result.data[1].b64_json, TRUE))
    /\ UNCHANGED <<apiKey, bucket, store, now>>

\* A millisecond passes.
Tick ==
    /\ now < MaxTime
    /\ now' = now + 1
    /\ UNCHANGED <<apiKey, bucket, store, flight, out>>

(***************************************************************************)
(* GET /api/images/:filename and GET /api/images.                          *)
(***************************************************************************)
FetchError(status, error) ==
    [status |-> status, error |-> error, body |-> <<>>, contentType |-> "",
     cacheControl |-> ""]

\* GetImage without the test of the object: a missing key reaches
\* object.writeHttpMetadata and the catch.
GetImageNoNullCheck(name, bound, readOk, s) ==
    IF ~bound
    THEN FetchError(500, "R2 bucket not configured")
    ELSE IF ~readOk \/ name \notin DOMAIN s
    THEN FetchError(500, "Failed to retrieve image")
    ELSE [status |-> 200, error |-> "", body |-> s[name].body,
          contentType |-> s[name].contentType,
          cacheControl |-> "public, max-age=31536000"]

\* The fetch handler's response for `name`; readOk is whether
\* IMAGES_BUCKET.get resolves.
GetImage(name, bound, readOk, s) ==
    IF ~bound
    THEN FetchError(500, "R2 bucket not configured")
    ELSE IF ~readOk
    THEN FetchError(500, "Failed to retrieve image")
    ELSE IF name \notin DOMAIN s
    THEN FetchError(404, "Image not found")
    ELSE [status |-> 200, error |-> "", body |-> s[name].body,
          contentType |-> s[name].contentType,
          cacheControl |-> "public, max-age=31536000"]

\* Keys compare as R2 orders them, byte by byte.
Ascii == "+,-./0123456789:;=ABCDEFGHIJKLMNOPQRSTUVWXYZ_abcdefghijklmnopqrstuvwxyz"

CharCode(ch) == CHOOSE i \in 1..Len(Ascii) : SubSeq(Ascii, i, i) = ch

KeyLess(a, b) ==
    LET n == IF Len(a) < Len(b) THEN Len(a) ELSE Len(b)
        diff == {i \in 1..n : SubSeq(a, i, i) # SubSeq(b, i, i)}
    IN  IF diff = {} THEN Len(a) < Len(b)
        ELSE LET d == CHOOSE i \in diff : \A j \in diff : i <= j
             IN  CharCode(SubSeq(a, d, d)) < CharCode(SubSeq(b, d, d))

\* IMAGES_BUCKET.list() with no options: one page of the bucket's keys in
\* key order.  R2 puts at most 1000 objects on a page; the model's page
\* holds R2ListLimit.
R2ListLimit == 2

R2List(s) ==
    LET rank(k) == Cardinality({j \in DOMAIN s : KeyLess(j, k)})
        n == IF Cardinality(DOMAIN s) < R2ListLimit
             THEN Cardinality(DOMAIN s) ELSE R2ListLimit
    IN  [i \in 1..n |->
            LET k == CHOOSE k \in DOMAIN s : rank(k) = i - 1
            IN  [key |-> k, size |-> Len(s[k].body)]]

ListError(status, error) ==
    [status |-> status, error |-> error, images |-> <<>>, count |-> 0]

\* The list handler's response; listOk is whether IMAGES_BUCKET.list
\* resolves.
ListImages(bound, listOk, s) ==
    IF ~bound
    THEN ListError(500, "R2 bucket not configured")
    ELSE IF ~listOk
    THEN ListError(500, "Failed to list images")
    ELSE LET objects == R2List(s)
             images == [i \in 1..Len(objects) |->
                           [key |-> objects[i].key,
                            url |-> "/api/images/" \o objects[i].key,
                            size |-> objects[i].size]]
         IN  [status |-> 200, error |-> "", images |-> images,
              count |-> Len(images)]

FetchNames == {Filename("medieval", t) : t \in 0..MaxTime} \cup {"missing.png"}

Fetch ==
    /\ \E name \in FetchNames, readOk \in BOOLEAN :
          out' = [route |-> "image",
                  frame |-> [filename |-> name, readOk |-> readOk],
                  response |-> GetImage(name, bucket, readOk, store)]
    /\ UNCHANGED <<apiKey, bucket, store, now, flight>>

List ==
    /\ \E listOk \in BOOLEAN :
          out' = [route |-> "list", frame |-> [listOk |-> listOk],
                  response |-> ListImages(bucket, listOk, store)]
    /\ UNCHANGED <<apiKey, bucket, store, now, flight>>

(***************************************************************************)
(* The worker.                                                             *)
(***************************************************************************)
NoOutput == [route |-> "", frame |-> <<>>, response |-> <<>>]

Init ==
    /\ apiKey \in BOOLEAN
    /\ bucket \in BOOLEAN
    /\ store = <<>>
    /\ now = 0
    /\ flight = EmptyBag
    /\ out = NoOutput

Next ==
    \/ Receive
    \/ UpstreamReturns
    \/ PutDone
    \/ PutFails
    \/ Tick
    \/ Fetch
    \/ List

Spec == Init /\ [][Next]_vars

(***************************************************************************)
(* Properties.                                                             *)
(***************************************************************************)
Transform == out.route = "transform"

\* The last transform handler got image content from the upstream service.
GotImage ==
    /\ Transform
    /\ out.frame.calls = 1
    /\ ~out.frame.result.threw
    /\ out.frame.result.data # <<>>
    /\ ~Falsy(out.frame.result.data[1].b64_json)

\* The image the upstream service produced for the last transform request.
UpstreamImage == BufferFromBase64(out.frame.result.data[1].b64_json)

C2_MissingKeyAlways500 ==
    (Transform /\ ~apiKey)
        => /\ out.response.status = 500
           /\ out.response.error = "OpenAI API key not configured"

\* C2, amended: with the credential missing, a JSON body that has both
\* fields is answered 500 with the configuration error, whether or not its
\* era is known; a JSON body lacking a field is answered 400.
C2_MissingKey500WhenFieldsPresent ==
    (Transform /\ ~apiKey /\ out.frame.req.json)
        => IF Falsy(out.frame.req.timeperiod) \/ Falsy(out.frame.req.imageData)
           THEN out.response.status = 400
           ELSE /\ out.response.status = 500
                /\ out.response.error = "OpenAI API key not configured"

C2_Witness ==
    /\ Transform
    /\ ~apiKey
    /\ out.frame.req.timeperiod = "atlantis"
    /\ out.response.status = 500

\* C3: a transform response with stored:true names a file
\* timetravel-<era>-<digits>.png, and a fetch of that file, then and after
\* any further step, returns the image the upstream service produced.
C3_FetchReturnsUpstreamImage ==
    [][(Transform /\ out.response.stored)
          => /\ \E t \in 0..MaxTime :
                  out.response.filename = Filename(out.frame.req.timeperiod, t)
             /\ GetImage(out.response.filename, TRUE, TRUE, store).body
                  = UpstreamImage
             /\ GetImage(out.response.filename, TRUE, TRUE, store').body
                  = UpstreamImage]_vars

\* C4: a valid request whose upstream call returned image content is
\* answered with success; without a bucket or with a failed put the answer
\* is stored:false with the data URI of the upstream base64, and
\* stored:true is answered only once the object is in the bucket.
C4_SucceedsInEveryStorageCondition ==
    GotImage
        => /\ out.response.status = 200
           /\ out.response.success
           /\ ~bucket => ~out.response.stored
           /\ ~out.response.stored
                => out.response.image =
                     "data:image/png;base64," \o out.frame.result.data[1].b64_json
           /\ out.response.stored
                => /\ out.frame.puts = 1
                   /\ out.response.filename \in DOMAIN store
                   /\ store[out.response.filename].body = UpstreamImage
           /\ (out.frame.puts = 1 /\ out.frame.filename \notin DOMAIN store)
                => ~out.response.stored

C4_Witness ==
    /\ GotImage
    /\ bucket
    /\ out.frame.puts = 1
    /\ ~out.response.stored
    /\ out.response.image = "data:image/png;base64,QUJE"

\* C5: a transform request without an era, with an unknown era or without
\* image data is answered 400 with an error, in every configuration.
C5_InvalidInputAlways400 ==
    (Transform /\ out.frame.req.json
       /\ (\/ Falsy(out.frame.req.timeperiod)
           \/ Falsy(out.frame.req.imageData)
           \/ FindPeriod(out.frame.req.timeperiod) = 0))
        => /\ out.response.status = 400
           /\ out.response.error # ""

\* C5, amended: a request without an era or without image data is answered
\* 400 with an error in every configuration; a request with both fields and
\* an unknown era is answered 400 with an error when the credential is
\* configured.
C5_InvalidInput400 ==
    (Transform /\ out.frame.req.json)
        => /\ (Falsy(out.frame.req.timeperiod) \/ Falsy(out.frame.req.imageData))
                => /\ out.response.status = 400
                   /\ out.response.error # ""
           /\ (/\ ~Falsy(out.frame.req.timeperiod)
               /\ ~Falsy(out.frame.req.imageData)
               /\ FindPeriod(out.frame.req.timeperiod) = 0
               /\ apiKey)
                => /\ out.response.status = 400
                   /\ out.response.error # ""

C5_Witness ==
    /\ Transform
    /\ ~apiKey
    /\ out.frame.req.json
    /\ Falsy(out.frame.req.timeperiod)
    /\ out.response.status = 400

\* C6: a transform handler calls the image service at most once and puts
\* at most once, the put only after the call returned an image.
CallsInOrder(f) ==
    /\ f.calls <= 1
    /\ f.puts <= 1
    /\ f.puts = 1
         => /\ f.calls = 1
            /\ ~f.result.threw
            /\ f.result.data # <<>>
            /\ ~Falsy(f.result.data[1].b64_json)

C6_OneCallOnePut ==
    /\ \A f \in BagToSet(flight) : CallsInOrder(f)
    /\ Transform => CallsInOrder(out.frame)

C6_Witness ==
    /\ Transform
    /\ out.frame.result.threw
    /\ out.frame.calls = 1
    /\ out.frame.puts = 0
    /\ out.response.status = 500

\* C7: a fetch is answered 404 exactly when a bucket is bound, the read
\* resolves and the key is absent; 500 exactly when no bucket is bound or
\* the read throws; 200 with the object's body exactly when the key is
\* present.
C7_FetchStatus ==
    out.route = "image"
        => LET present == out.frame.filename \in DOMAIN store
               working == bucket /\ out.frame.readOk
           IN  /\ out.response.status = 404 <=> (working /\ ~present)
               /\ out.response.status = 500 <=> ~working
               /\ out.response.status = 200 <=> (working /\ present)
               /\ out.response.status = 200
                    => out.response.body = store[out.frame.filename].body

C7_Witness ==
    /\ out.route = "image"
    /\ out.response.status = 404
    /\ store # <<>>

\* C8: a list answered from a bound bucket has one entry per object in the
\* bucket, each with url /api/images/<key>, and a count equal to the number
\* of entries.
C8_ListsEveryObject ==
    (out.route = "list" /\ out.response.status = 200)
        => LET images == out.response.images
           IN  /\ {images[i].key : i \in 1..Len(images)} = DOMAIN store
               /\ Len(images) = Cardinality(DOMAIN store)
               /\ \A i \in 1..Len(images) :
                     images[i].url = "/api/images/" \o images[i].key
               /\ out.response.count = Len(images)

\* C9: when the upstream call fails or gives no data entry or no base64
\* content, the handler answers 500 with an error and has put nothing.
C9_UpstreamFailure500NoPut ==
    (Transform /\ out.frame.calls = 1 /\ ~GotImage)
        => /\ out.response.status = 500
           /\ out.response.error # ""
           /\ out.frame.puts = 0
           /\ out.frame.filename = ""

C9_Witness ==
    /\ Transform
    /\ out.frame.calls = 1
    /\ out.frame.result.data # <<>>
    /\ out.frame.result.data[1].b64_json = Undefined
    /\ out.response.status = 500
    /\ bucket

\* C10: a rejected transform request has called nothing and put nothing,
\* and the bucket changes only in the step that answers stored:true to a
\* request that passed the three checks and was suspended at its put.
C10_StoreChangesOnlyByAcceptedPut ==
    [][/\ (out'.route = "transform"
             /\ Rejection(out'.frame.req, apiKey) # NoResponse)
          => /\ out'.frame.calls = 0
             /\ out'.frame.puts = 0
             /\ out'.response = Rejection(out'.frame.req, apiKey)
       /\ store' # store
          => /\ out'.route = "transform"
             /\ out'.response.stored
             /\ Rejection(out'.frame.req, apiKey) = NoResponse
             /\ out'.frame \in BagToSet(flight)
             /\ out'.frame.pc = "putting"
             /\ flight' = flight (-) SetToBag({out'.frame})
       /\ (out'.route \in {"image", "list"} /\ out' # out)
          => store' = store]_vars

C10_Witness ==
    /\ Transform
    /\ out.response.stored
    /\ Cardinality(DOMAIN store) = 2

====
